---- MODULE Spec2Model ----
(***************************************************************************)
(* The simulation turn orchestrator of dream-deeply: the SimulationView    *)
(* component (src/components/SimulationView.tsx, lines 299-503), the       *)
(* generator adapters it calls (src/services/geminiService.ts, lines       *)
(* 339-634) and the archive handler of App (src/App.tsx, lines 102-135);   *)
(* and the story view in its latest revision (src/unnamed/part_000, lines  *)
(* 52-449) with the adapters it calls (geminiService.ts 685-800).          *)
(*                                                                         *)
(* One step of the model is one run-to-completion piece of JavaScript: an  *)
(* event handler up to its first await, or the continuation of an async    *)
(* function from one await to the next.  A step ends with React's render   *)
(* of the state it set and the effects of that render (Commit).            *)
(*                                                                         *)
(* The upstream is modelled by its replies.  A reply that parses conforms  *)
(* to the responseSchema the request states (geminiService.ts 430-455,     *)
(* 530-554); every other outcome is a failure kind.                        *)
(***************************************************************************)
EXTENDS Integers, Sequences, FiniteSets, TLC

\* Number of user actions a run may have accepted (caps turnCalls).
MaxTurns == 1

\* Number of records the archive may hold (caps handleSaveRecord).
MaxRecords == 3

\* Number of scene loads a story may start (caps loadCalls).
MaxLoads == 2

Null == "null"

\* ------------------------------------------------------------------ data

\* SimulationType (src/types.ts 10-17).
Kinds == {"HISTORY", "CHEMISTRY", "PHYSICS", "LITERATURE", "CODING", "CUSTOM"}

\* A text the user acts with is a sequence of symbols; " " is white space.
Space == " "
InputTexts == { <<>>, <<Space>>, <<Space, "go">> }

\* options the upstream suggests: none, or a list.
SuggestedOptions == << <<Space, "go">> >>
OptionLists == { <<>>, SuggestedOptions }

Descriptions == {"the ball slides down"}
Reports == {"report"}
Scenes == {"sceneA", "sceneB"}

\* Outcomes of one upstream request besides a parsed payload.
TurnFailures == {"timeout", "error", "empty", "unparsable"}
SceneFailures == {"timeout", "error", "empty", "unparsable"}
ImageFailures == {"timeout", "error", "noInlineData"}

\* An image is named by the request that produced it; <<>> is null.
NullImage == <<>>
ImageFor(n) == <<n>>

\* String.prototype.trim, on a sequence of symbols.
RECURSIVE TrimStart(_)
TrimStart(s) ==
  IF s # <<>> /\ Head(s) = Space THEN TrimStart(Tail(s)) ELSE s

RECURSIVE TrimEnd(_)
TrimEnd(s) ==
  IF s # <<>> /\ s[Len(s)] = Space THEN TrimEnd(SubSeq(s, 1, Len(s) - 1)) ELSE s

Trim(s) == TrimEnd(TrimStart(s))

Range(f) == { f[i] : i \in DOMAIN f }

\* ------------------------------------------------------- upstream replies

\* What the text model answers: a payload of the response schema, or a failure.
TurnPayloads ==
  [ kind : {"ok"}, description : Descriptions, options : OptionLists,
    isEnded : BOOLEAN, shouldUpdateVisuals : BOOLEAN, report : Reports \cup {Null} ]

TurnReplies ==
  TurnPayloads \cup
  [ kind : TurnFailures, description : {Null}, options : {<<>>},
    isEnded : {FALSE}, shouldUpdateVisuals : {FALSE}, report : {Null} ]

SceneReplies ==
  [ kind : {"ok"}, config : Scenes ] \cup [ kind : SceneFailures, config : {Null} ]

ImageReplies == {"ok"} \cup ImageFailures

\* --------------------------------------------------------------- adapters

ConnectionFallback ==
  [ description |-> "connection to the tutor is unstable, please retry",
    options |-> << <<"retry">> >>,
    shouldUpdateVisuals |-> FALSE, isEnded |-> FALSE, report |-> Null ]

ParseFallback ==
  [ description |-> "the tutor is arranging the lesson (parse error)",
    options |-> << <<"keep observing">> >>,
    shouldUpdateVisuals |-> FALSE, isEnded |-> FALSE, report |-> Null ]

FallbackDescriptions == { ConnectionFallback.description, ParseFallback.description }

\* A fallback that ends the run and offers nothing.
generateSimulationTurn_EndsRun(reply) ==
  IF reply.kind = "ok"
    THEN [ description |-> reply.description, options |-> reply.options,
           shouldUpdateVisuals |-> reply.shouldUpdateVisuals,
           isEnded |-> reply.isEnded, report |-> reply.report ]
    ELSE [ ConnectionFallback EXCEPT !.isEnded = TRUE, !.options = <<>> ]

\* An adapter that tells a timeout from the other failures.
generateSimulationTurn_TimeoutDiffers(reply) ==
  CASE reply.kind = "ok" ->
         [ description |-> reply.description, options |-> reply.options,
           shouldUpdateVisuals |-> reply.shouldUpdateVisuals,
           isEnded |-> reply.isEnded, report |-> reply.report ]
    [] reply.kind \in {"unparsable", "timeout"} -> ParseFallback
    [] OTHER -> ConnectionFallback

\* An adapter whose fallback for a failed connection offers no option.
generateSimulationTurn_NoOptions(reply) ==
  CASE reply.kind = "ok" ->
         [ description |-> reply.description, options |-> reply.options,
           shouldUpdateVisuals |-> reply.shouldUpdateVisuals,
           isEnded |-> reply.isEnded, report |-> reply.report ]
    [] reply.kind = "unparsable" -> ParseFallback
    [] OTHER -> [ ConnectionFallback EXCEPT !.options = <<>> ]

\* generateSimulationTurn: the value the adapter resolves to; it never rejects.
generateSimulationTurn(reply) ==
  CASE reply.kind = "ok" ->
         [ description |-> reply.description, options |-> reply.options,
           shouldUpdateVisuals |-> reply.shouldUpdateVisuals,
           isEnded |-> reply.isEnded, report |-> reply.report ]
    [] reply.kind = "unparsable" -> ParseFallback
    [] OTHER -> ConnectionFallback

PlaceholderScene == "placeholder"

\* The objects of the placeholder configuration.
PlaceholderObjects ==
  << [ id |-> "floor", type |-> "PLANE", label |-> "bench" ],
     [ id |-> "error_cube", type |-> "CUBE", label |-> "configuration generation failed" ] >>

\* A failure that hands back the previous configuration even when there is none.
generateSceneConfiguration_PreviousOnly(reply, previousState) ==
  IF reply.kind = "ok" THEN reply.config ELSE previousState

\* A failure that always answers with the placeholder.
generateSceneConfiguration_Placeholder(reply, previousState) ==
  IF reply.kind = "ok" THEN reply.config ELSE PlaceholderScene

\* generateSceneConfiguration: the value the adapter resolves to; it never rejects.
generateSceneConfiguration(reply, previousState) ==
  IF reply.kind = "ok"
    THEN reply.config
    ELSE IF previousState # Null THEN previousState ELSE PlaceholderScene

\* searchImageDatabase: the image cache is switched off and finds nothing.
DB_SEARCH_ENABLED == FALSE
searchImageDatabase(prompt) == IF ~DB_SEARCH_ENABLED THEN NullImage ELSE NullImage

\* The style part of the prompt generateSimulationImage builds.
StylePrompt(style) ==
  IF style = "SCHEMATIC" THEN "textbook illustration, schematic diagram"
  ELSE "historical painting or scientific visualization"

\* The request generateSimulationImage sends to the image model: none on a
\* cache hit, else one with the prompt of the style, whatever the style is.
NoImageCall == [ model |-> Null, prompt |-> <<>> ]
ImageModelCall(description, style) ==
  IF searchImageDatabase(description) # NullImage
    THEN NoImageCall
    ELSE [ model |-> "IMAGE_MODEL", prompt |-> << StylePrompt(style), description >> ]

\* generateSimulationImage for request n: the image, or null on every failure.
generateSimulationImage(reply, n) ==
  IF reply = "ok" THEN ImageFor(n) ELSE NullImage

\* ------------------------------------------------------------------ state

\* JSON.stringify of the list: a field without a value is left out.
StringifyRecord(r) ==
  IF r.report = Null THEN [ k \in DOMAIN r \ {"report"} |-> r[k] ] ELSE r
JSONstringify(records) ==
  [ json |-> [ i \in DOMAIN records |-> StringifyRecord(records[i]) ] ]

\* JSON.parse of a stored text.
JSONparse(text) == text.json

VARIABLES
  type,             \* prop type: the scenario kind of the run
  simState,         \* useState<SimulationState>
  visualStyle,      \* useState: "ARTISTIC", "SCHEMATIC" or null
  showReportModal,  \* useState
  reportSaved,      \* useRef: the report was handed to onSaveRecord
  savedRecords,     \* App's useState<SavedRecord[]>, newest first
  localStorage,     \* the item 'nexus_archives' of localStorage
  pc,               \* where startSimulation / handleAction is suspended
  act,              \* what the suspended handleAction closed over
  turn,             \* handleAction's local turn while it awaits the scene
  imageReqs,        \* generateSimulationImage requests in flight
  sceneReq,         \* arguments of the latest generateSceneConfiguration call
  timers,           \* pending setTimeout(() => setShowReportModal(true))
  turnCalls,        \* generateSimulationTurn calls issued
  sceneCalls,       \* generateSceneConfiguration calls issued
  imageCalls,       \* generateSimulationImage calls issued
  event,            \* the handler or continuation that ran last
  gameState,        \* story view: useState<StorySceneState>
  interactingId,    \* story view: the hotspot whose animation plays, or null
  showCustomInput,  \* story view: the custom action form is open
  isTyping,         \* story view: the typewriter effect is running
  initError,        \* story view: initGame failed
  sceneLoads,       \* story view: loadScene calls suspended at an await
  interactTimers,   \* story view: pending timeouts of handleInteract
  loadCalls         \* story view: loadScene calls made

\* The state of the story view.
storyVars == << gameState, interactingId, showCustomInput, isTyping, initError,
               sceneLoads, interactTimers, loadCalls >>

vars == << type, simState, visualStyle, showReportModal, reportSaved, savedRecords,
           localStorage,
           pc, act, turn, imageReqs, sceneReq, timers, turnCalls, sceneCalls, imageCalls,
           event, storyVars >>

\* The story view's state at mount (part_000 52-70); the typewriter effect of
\* the first render has set isTyping and stopped at the empty narrative.
InitialGameState ==
  [ narrative |-> "", visualPrompt |-> "", interactables |-> <<>>, inventory |-> <<>>,
    bgImage |-> NullImage, history |-> <<>>, userRole |-> "", characterImage |-> NullImage,
    isLoading |-> TRUE, isImageLoading |-> TRUE ]

StoryMounted ==
  /\ gameState = InitialGameState
  /\ interactingId = Null
  /\ showCustomInput = FALSE
  /\ isTyping = TRUE
  /\ initError = FALSE
  /\ sceneLoads = {}
  /\ interactTimers = <<>>
  /\ loadCalls = 0

\* A test that leaves HISTORY out.
isScientificMode_NoHistory(t) == t \in {"PHYSICS", "CHEMISTRY"}

\* A test that holds of every kind.
isScientificMode_All(t) == t \in Kinds

isScientificMode(t) == t \in {"PHYSICS", "CHEMISTRY", "HISTORY"}

InitialSimState ==
  [ description |-> "initializing", imageBase64 |-> NullImage, options |-> <<>>,
    history |-> <<>>, isLoading |-> TRUE, isImageLoading |-> TRUE,
    waitingForVisualChoice |-> FALSE, isEnded |-> FALSE, report |-> Null,
    sceneConfig |-> Null ]

NoAct == [ actionText |-> <<>>, history |-> <<>>, sceneConfig |-> Null, visualStyle |-> Null ]
NoTurn == ConnectionFallback

\* The arguments of a generateSceneConfiguration call; the prop initialContext.
initialContext == "initialContext"
SceneRequest(context, previousState) == [ context |-> context, previousState |-> previousState ]
NoSceneReq == SceneRequest(Null, Null)

Event(op, info) == [ op |-> op, info |-> info ]
Outcome(kind) == IF kind = "ok" THEN "ok" ELSE "failed"

\* The component right after mount: the initialization effect has issued its
\* requests (one turn, and for a scientific kind one scene) and awaits both.
Init ==
  /\ type \in Kinds
  /\ simState = InitialSimState
  /\ visualStyle = Null
  /\ showReportModal = FALSE
  /\ reportSaved = FALSE
  /\ savedRecords = <<>>
  /\ localStorage = JSONstringify(savedRecords)
  /\ pc = "init"
  /\ act = NoAct
  /\ turn = NoTurn
  /\ imageReqs = {}
  /\ sceneReq = IF isScientificMode(type) THEN SceneRequest(initialContext, Null)
                ELSE NoSceneReq
  /\ timers = 0
  /\ turnCalls = 1
  /\ sceneCalls = IF isScientificMode(type) THEN 1 ELSE 0
  /\ imageCalls = 0
  /\ event = Event("mount", "")
  /\ StoryMounted

\* ---------------------------------------------------------------- effects

ShouldSave_NoGuard(s, saved) == s.isEnded /\ s.report # Null

\* The condition of the auto-save effect.
ShouldSave(s, saved) == s.isEnded /\ s.report # Null /\ ~saved

\* A record whose transcript stops at the initial description.
SavedRecord_FirstEntryOnly(s) ==
  [ type |-> type, report |-> s.report, transcript |-> SubSeq(s.history, 1, 1) ]

SavedRecord(s) == [ type |-> type, report |-> s.report, transcript |-> s.history ]

\* handleSaveRecord: the new record goes in front of the list.
handleSaveRecord(record, records) == <<record>> \o records

\* A delete that stops at the first record with the id.
RECURSIVE handleDeleteRecord_FirstOnly(_, _)
handleDeleteRecord_FirstOnly(id, records) ==
  IF records = <<>> THEN <<>>
  ELSE IF Head(records).id = id THEN Tail(records)
  ELSE <<Head(records)>> \o handleDeleteRecord_FirstOnly(id, Tail(records))

\* handleDeleteRecord: the records whose id is not the given one.
handleDeleteRecord(id, records) == SelectSeq(records, LAMBDA r : r.id # id)

\* The auto-save effect, run on the state s a render shows.
AutoSave(s) ==
  IF ShouldSave(s, reportSaved)
    THEN /\ reportSaved' = TRUE
         /\ savedRecords' = handleSaveRecord(SavedRecord(s), savedRecords)
         /\ localStorage' = JSONstringify(savedRecords')
    ELSE UNCHANGED << reportSaved, savedRecords, localStorage >>

\* A state update, the render it causes and that render's effects.
Commit(s) == simState' = s /\ AutoSave(s)

\* ----------------------------------------------------------------- visual

\* An image request that leaves waitingForVisualChoice as it is.
triggerImageGeneration_KeepsWaiting(s, description, style, isEnded) ==
  IF style = "SCHEMATIC"
    THEN [ state |-> s, reqs |-> imageReqs, calls |-> imageCalls ]
    ELSE [ state |-> [ s EXCEPT !.isImageLoading = TRUE ],
           reqs  |-> imageReqs \cup
                       { [ id |-> imageCalls + 1, description |-> description,
                           isEnded |-> isEnded, imageBefore |-> s.imageBase64,
                           call |-> ImageModelCall(description, style) ] },
           calls |-> imageCalls + 1 ]

\* An image request whatever the style.
triggerImageGeneration_NoShortCircuit(s, description, style, isEnded) ==
  [ state |-> [ s EXCEPT !.isImageLoading = TRUE, !.waitingForVisualChoice = FALSE ],
    reqs  |-> imageReqs \cup
                { [ id |-> imageCalls + 1, description |-> description,
                    isEnded |-> isEnded, imageBefore |-> s.imageBase64,
                    call |-> ImageModelCall(description, style) ] },
    calls |-> imageCalls + 1 ]

\* triggerImageGeneration up to its await: the state it sets and the request
\* it issues (with the image shown when it is issued).  style SCHEMATIC
\* returns before either.
triggerImageGeneration(s, description, style, isEnded) ==
  IF style = "SCHEMATIC"
    THEN [ state |-> s, reqs |-> imageReqs, calls |-> imageCalls ]
    ELSE [ state |-> [ s EXCEPT !.isImageLoading = TRUE,
                                !.waitingForVisualChoice = FALSE ],
           reqs  |-> imageReqs \cup
                       { [ id |-> imageCalls + 1, description |-> description,
                           isEnded |-> isEnded, imageBefore |-> s.imageBase64,
                           call |-> ImageModelCall(description, style) ] },
           calls |-> imageCalls + 1 ]

\* A reply that also puts back the description its image was asked for.
ImageResponse_RestoresDescription(req, reply) ==
  /\ req \in imageReqs
  /\ LET image == generateSimulationImage(reply, req.id)
     IN  Commit([ simState EXCEPT !.imageBase64 = image, !.isImageLoading = FALSE,
                                  !.description = req.description ])
  /\ imageReqs' = imageReqs \ {req}
  /\ timers' = IF req.isEnded THEN timers + 1 ELSE timers
  /\ event' = Event("imageResponse", Outcome(reply))
  /\ UNCHANGED << storyVars, type, visualStyle, showReportModal, pc, act, turn, sceneReq,
                  turnCalls, sceneCalls, imageCalls >>

\* triggerImageGeneration after its await: the reply of request req arrives.
ImageResponse(req, reply) ==
  /\ req \in imageReqs
  /\ LET image == generateSimulationImage(reply, req.id)
     IN  Commit([ simState EXCEPT !.imageBase64 = image, !.isImageLoading = FALSE ])
  /\ imageReqs' = imageReqs \ {req}
  /\ timers' = IF req.isEnded THEN timers + 1 ELSE timers
  /\ event' = Event("imageResponse", Outcome(reply))
  /\ UNCHANGED << storyVars, type, visualStyle, showReportModal, pc, act, turn, sceneReq,
                  turnCalls, sceneCalls, imageCalls >>

\* A dialog that opens as soon as the run has ended.
ReportTimer_Eager ==
  /\ simState.isEnded
  /\ ~showReportModal
  /\ timers' = timers
  /\ showReportModal' = TRUE
  /\ event' = Event("reportTimer", "")
  /\ UNCHANGED << storyVars, type, simState, visualStyle, reportSaved, savedRecords, localStorage, pc, act,
                  turn, imageReqs, sceneReq, turnCalls, sceneCalls, imageCalls >>

\* The timeout callback that opens the report dialog.
ReportTimer ==
  /\ timers > 0
  /\ timers' = timers - 1
  /\ showReportModal' = TRUE
  /\ event' = Event("reportTimer", "")
  /\ UNCHANGED << storyVars, type, simState, visualStyle, reportSaved, savedRecords, localStorage, pc, act,
                  turn, imageReqs, sceneReq, turnCalls, sceneCalls, imageCalls >>

\* --------------------------------------------------------- initialization

\* startSimulation after Promise.all: both replies are in.  Neither adapter
\* rejects, so the catch of startSimulation is never entered.
InitResponse(reply, sceneReply) ==
  /\ pc = "init"
  /\ LET t  == generateSimulationTurn(reply)
         sc == IF isScientificMode(type)
                 THEN generateSceneConfiguration(sceneReply, sceneReq.previousState)
                 ELSE Null
         s1 == [ simState EXCEPT !.description = t.description,
                                 !.options = t.options,
                                 !.history = << [ role |-> "model", text |-> t.description ] >>,
                                 !.isLoading = FALSE,
                                 !.isEnded = t.isEnded,
                                 !.report = t.report,
                                 !.isImageLoading = FALSE,
                                 !.waitingForVisualChoice = FALSE,
                                 !.sceneConfig = sc ]
     IN  IF isScientificMode(type)
           THEN /\ Commit([ s1 EXCEPT !.waitingForVisualChoice = TRUE ])
                /\ UNCHANGED << visualStyle, imageReqs, imageCalls >>
           ELSE LET r == triggerImageGeneration(s1, t.description, "ARTISTIC", t.isEnded)
                IN  /\ visualStyle' = "ARTISTIC"
                    /\ Commit(r.state)
                    /\ imageReqs' = r.reqs
                    /\ imageCalls' = r.calls
  /\ pc' = "idle"
  /\ event' = Event("initResponse", Outcome(reply.kind))
  /\ UNCHANGED << storyVars, type, showReportModal, act, turn, sceneReq, timers, turnCalls,
                  sceneCalls >>

\* ------------------------------------------------------------ user action

\* The guard without the isEnded test.
Accepts_IgnoresEnded(actionText, s) ==
  ~(Trim(actionText) = <<>> \/ s.isLoading \/ s.waitingForVisualChoice)

\* The guard without the isLoading test.
Accepts_IgnoresLoading(actionText, s) ==
  ~(Trim(actionText) = <<>> \/ s.isEnded \/ s.waitingForVisualChoice)

\* handleAction's guard: the call goes on iff this holds.
Accepts(actionText, s) ==
  ~(Trim(actionText) = <<>> \/ s.isLoading \/ s.isEnded \/ s.waitingForVisualChoice)

\* The texts handleAction can be called with: an option button's option, or
\* what handleCustomSubmit reads from the text field.
ActionTexts == InputTexts \cup Range(simState.options)

\* handleAction whose guard returns at once.
HandleActionRejected(actionText) ==
  /\ ~Accepts(actionText, simState)
  /\ UNCHANGED vars

\* handleAction up to its first await: isLoading is set and the turn requested.
\* (isLoading holds whenever startSimulation or a handleAction is suspended.)
HandleAction(actionText) ==
  /\ Accepts(actionText, simState)
  /\ turnCalls <= MaxTurns
  /\ Commit([ simState EXCEPT !.isLoading = TRUE ])
  /\ act' = [ actionText |-> actionText, history |-> simState.history,
              sceneConfig |-> simState.sceneConfig, visualStyle |-> visualStyle ]
  /\ turnCalls' = turnCalls + 1
  /\ pc' = "turn"
  /\ event' = Event("handleAction", "accepted")
  /\ UNCHANGED << storyVars, type, visualStyle, showReportModal, turn, imageReqs, sceneReq, timers,
                  sceneCalls, imageCalls >>

\* A scene update for any turn of a scientific run.
SceneWanted_Always(kind, t) == isScientificMode(kind)

\* A scene update also for a turn that ends the run.
SceneWanted_OrEnded(kind, t) ==
  isScientificMode(kind) /\ (t.shouldUpdateVisuals \/ t.isEnded)

\* handleAction asks for a new scene configuration.
SceneWanted(kind, t) == isScientificMode(kind) /\ t.shouldUpdateVisuals

\* An image whatever the style.
ImageWanted_AnyStyle(style, t) == t.shouldUpdateVisuals \/ t.isEnded

\* An image only for a turn that asks for a visual update.
ImageWanted_OnlyOnUpdate(style, t) == style = "ARTISTIC" /\ t.shouldUpdateVisuals

\* handleAction asks for a new image.
ImageWanted(style, t) == style = "ARTISTIC" /\ (t.shouldUpdateVisuals \/ t.isEnded)

newHistory(a) == Append(a.history, [ role |-> "user", text |-> a.actionText ])

\* The updater that forgets the user's entry.
TurnState_NoUserEntry(prev, a, t, newSceneConfig) ==
  [ prev EXCEPT !.description = t.description,
                !.options = t.options,
                !.history = Append(a.history, [ role |-> "model", text |-> t.description ]),
                !.isLoading = FALSE,
                !.isEnded = t.isEnded,
                !.report = t.report,
                !.sceneConfig = IF newSceneConfig # Null THEN newSceneConfig
                                ELSE prev.sceneConfig ]

\* The updater that leaves isLoading set.
TurnState_KeepsLoading(prev, a, t, newSceneConfig) ==
  [ prev EXCEPT !.description = t.description,
                !.options = t.options,
                !.history = Append(newHistory(a), [ role |-> "model", text |-> t.description ]),
                !.isEnded = t.isEnded,
                !.report = t.report,
                !.sceneConfig = IF newSceneConfig # Null THEN newSceneConfig
                                ELSE prev.sceneConfig ]

\* The updater that takes the new scene configuration as it comes.
TurnState_DropsScene(prev, a, t, newSceneConfig) ==
  [ prev EXCEPT !.description = t.description,
                !.options = t.options,
                !.history = Append(newHistory(a), [ role |-> "model", text |-> t.description ]),
                !.isLoading = FALSE,
                !.isEnded = t.isEnded,
                !.report = t.report,
                !.sceneConfig = IF t.shouldUpdateVisuals THEN newSceneConfig ELSE Null ]

\* The state update of a finished turn.
TurnState(prev, a, t, newSceneConfig) ==
  [ prev EXCEPT !.description = t.description,
                !.options = t.options,
                !.history = Append(newHistory(a), [ role |-> "model", text |-> t.description ]),
                !.isLoading = FALSE,
                !.isEnded = t.isEnded,
                !.report = t.report,
                !.sceneConfig = IF newSceneConfig # Null THEN newSceneConfig
                                ELSE prev.sceneConfig ]

\* handleAction from its state update to its end.
FinishTurn(t, newSceneConfig) ==
  /\ LET s1 == TurnState(simState, act, t, newSceneConfig)
     IN  IF ImageWanted(act.visualStyle, t)
           THEN LET r == triggerImageGeneration(s1, t.description, "ARTISTIC", t.isEnded)
                IN  /\ Commit(r.state)
                    /\ imageReqs' = r.reqs
                    /\ imageCalls' = r.calls
                    /\ timers' = timers
           ELSE /\ Commit(s1)
                /\ UNCHANGED << imageReqs, imageCalls >>
                /\ timers' = IF act.visualStyle = "SCHEMATIC" /\ t.isEnded
                               THEN timers + 1 ELSE timers
  /\ turn' = t
  /\ act' = NoAct
  /\ pc' = "idle"

\* handleAction after the turn's await.
TurnResponse(reply) ==
  /\ pc = "turn"
  /\ LET t == generateSimulationTurn(reply)
     IN  IF SceneWanted(type, t)
           THEN /\ turn' = t
                /\ sceneCalls' = sceneCalls + 1
                /\ sceneReq' = SceneRequest(t.description, act.sceneConfig)
                /\ pc' = "scene"
                /\ UNCHANGED << simState, reportSaved, savedRecords, localStorage, imageReqs,
                                imageCalls, timers, act >>
           ELSE /\ FinishTurn(t, act.sceneConfig)
                /\ UNCHANGED << sceneCalls, sceneReq >>
  /\ event' = Event("turnResponse", Outcome(reply.kind))
  /\ UNCHANGED << storyVars, type, visualStyle, showReportModal, turnCalls >>

\* handleAction after the scene's await.
SceneResponse(sceneReply) ==
  /\ pc = "scene"
  /\ FinishTurn(turn, generateSceneConfiguration(sceneReply, sceneReq.previousState))
  /\ event' = Event("sceneResponse", Outcome(sceneReply.kind))
  /\ UNCHANGED << storyVars, type, visualStyle, showReportModal, sceneReq, turnCalls, sceneCalls >>

\* ------------------------------------------------------ visualization mode

\* A choice that asks for an image whatever the style.
HandleVisualChoice_AlwaysImage(style) ==
  /\ simState.waitingForVisualChoice
  /\ visualStyle' = style
  /\ LET r == triggerImageGeneration(simState, simState.description, "ARTISTIC",
                                      simState.isEnded)
     IN  /\ Commit(r.state)
         /\ imageReqs' = r.reqs
         /\ imageCalls' = r.calls
  /\ event' = Event("handleVisualChoice", style)
  /\ UNCHANGED << storyVars, type, showReportModal, pc, act, turn, sceneReq, timers, turnCalls,
                  sceneCalls >>

\* A choice that can be made at any time.
HandleVisualChoice_Unguarded(style) ==
  /\ visualStyle' = style
  /\ IF style = "ARTISTIC"
       THEN LET r == triggerImageGeneration(simState, simState.description, style,
                                            simState.isEnded)
            IN  /\ Commit(r.state)
                /\ imageReqs' = r.reqs
                /\ imageCalls' = r.calls
       ELSE /\ Commit([ simState EXCEPT !.isImageLoading = FALSE,
                                        !.waitingForVisualChoice = FALSE ])
            /\ UNCHANGED << imageReqs, imageCalls >>
  /\ event' = Event("handleVisualChoice", style)
  /\ UNCHANGED << storyVars, type, showReportModal, pc, act, turn, sceneReq, timers, turnCalls,
                  sceneCalls >>

\* handleVisualChoice; its buttons exist only while waitingForVisualChoice.
HandleVisualChoice(style) ==
  /\ simState.waitingForVisualChoice
  /\ visualStyle' = style
  /\ IF style = "ARTISTIC"
       THEN LET r == triggerImageGeneration(simState, simState.description, style,
                                            simState.isEnded)
            IN  /\ Commit(r.state)
                /\ imageReqs' = r.reqs
                /\ imageCalls' = r.calls
       ELSE /\ Commit([ simState EXCEPT !.isImageLoading = FALSE,
                                        !.waitingForVisualChoice = FALSE ])
            /\ UNCHANGED << imageReqs, imageCalls >>
  /\ event' = Event("handleVisualChoice", style)
  /\ UNCHANGED << storyVars, type, showReportModal, pc, act, turn, sceneReq, timers, turnCalls,
                  sceneCalls >>

\* A render with no state change (App hands down a new onSaveRecord after the
\* archive changed): the auto-save effect runs again.
Rerender ==
  /\ Commit(simState)
  /\ UNCHANGED << storyVars, type, visualStyle, showReportModal, pc, act, turn, imageReqs, sceneReq,
                  timers, turnCalls, sceneCalls, imageCalls, event >>

\* ------------------------------------------------------------------- spec

Next ==
  \/ \E reply \in TurnReplies, sceneReply \in SceneReplies : InitResponse(reply, sceneReply)
  \/ \E a \in ActionTexts : HandleActionRejected(a)
  \/ \E a \in ActionTexts : HandleAction(a)
  \/ \E reply \in TurnReplies : TurnResponse(reply)
  \/ \E sceneReply \in SceneReplies : SceneResponse(sceneReply)
  \/ \E style \in {"ARTISTIC", "SCHEMATIC"} : HandleVisualChoice(style)
  \/ \E req \in imageReqs, reply \in ImageReplies : ImageResponse(req, reply)
  \/ ReportTimer
  \/ Rerender

Spec == Init /\ [][Next]_vars

\* The await at which startSimulation or handleAction is suspended settles.
Resume ==
  \/ \E reply \in TurnReplies, sceneReply \in SceneReplies : InitResponse(reply, sceneReply)
  \/ \E reply \in TurnReplies : TurnResponse(reply)
  \/ \E sceneReply \in SceneReplies : SceneResponse(sceneReply)

\* Every request settles: withTimeout rejects a call that has not answered
\* when its timer fires, so a suspended await is resumed.
FairSpec == Spec /\ WF_vars(Resume)

\* The user of a scientific run picks one of the two styles offered.
UserChooses == \E style \in {"ARTISTIC", "SCHEMATIC"} : HandleVisualChoice(style)

\* An image request in flight settles (withTimeout covers it as well).
ImageSettles == \E req \in imageReqs, reply \in ImageReplies : ImageResponse(req, reply)

\* A run that is carried through: every request settles, the user makes the
\* choice the overlay waits for, and a timeout that was set fires.
LiveSpec ==
  Spec /\ WF_vars(Resume) /\ WF_vars(UserChooses) /\ WF_vars(ImageSettles)
       /\ WF_vars(ReportTimer)

\* ---------------------------------------------------------------- archive

\* App with its archive, apart from any run: records are saved and deleted.
RecordIds == {"t1", "t2", "t3"}
ArchiveReports == {"reportA", "reportB"}
ArchiveRecords ==
  [ id : RecordIds, type : {"PHYSICS"}, report : ArchiveReports, transcript : {<<>>} ]

\* The variables of a run.
runVars == << type, simState, visualStyle, showReportModal, reportSaved, pc, act, turn,
             imageReqs, sceneReq, timers, turnCalls, sceneCalls, imageCalls >>

\* No run has issued a request.
NoRun ==
  /\ type = "PHYSICS"
  /\ simState = InitialSimState
  /\ visualStyle = Null
  /\ showReportModal = FALSE
  /\ reportSaved = FALSE
  /\ pc = "init"
  /\ act = NoAct
  /\ turn = NoTurn
  /\ imageReqs = {}
  /\ sceneReq = NoSceneReq
  /\ timers = 0
  /\ turnCalls = 0
  /\ sceneCalls = 0
  /\ imageCalls = 0

\* App after mount: the archive is what the mount effect parsed from storage.
ArchiveInit ==
  /\ NoRun
  /\ StoryMounted
  /\ event = Event("mount", "")
  /\ localStorage \in { JSONstringify(<<>>) } \cup
                       { JSONstringify(<<r>>) : r \in ArchiveRecords }
  /\ savedRecords = JSONparse(localStorage)

\* handleSaveRecord called with a record.
SaveRecord(record) ==
  /\ Len(savedRecords) < MaxRecords
  /\ savedRecords' = handleSaveRecord(record, savedRecords)
  /\ localStorage' = JSONstringify(savedRecords')
  /\ event' = Event("handleSaveRecord", record.id)
  /\ UNCHANGED << runVars, storyVars >>

\* handleDeleteRecord, from the delete button of a listed record.
DeleteRecord(id) ==
  /\ \E i \in DOMAIN savedRecords : savedRecords[i].id = id
  /\ savedRecords' = handleDeleteRecord(id, savedRecords)
  /\ localStorage' = JSONstringify(savedRecords')
  /\ event' = Event("handleDeleteRecord", id)
  /\ UNCHANGED << runVars, storyVars >>

ArchiveNext ==
  \/ \E record \in ArchiveRecords : SaveRecord(record)
  \/ \E id \in RecordIds : DeleteRecord(id)

ArchiveSpec == ArchiveInit /\ [][ArchiveNext]_vars

\* ------------------------------------------------------------------ story

\* What the story view's upstream answers.
Narratives == {"n1", "n2"}
Lamp == [ id |-> "i1", label |-> "lamp", type |-> "EXAMINE", description |-> "d1" ]
Key == [ id |-> "i2", label |-> "key", type |-> "PICKUP", description |-> "d2" ]
StoryFailures == {"timeout", "error", "empty", "unparsable"}
StoryReplies ==
  [ kind : {"ok"}, narrative : Narratives, visualPrompt : {"vp"},
    interactables : { <<Lamp, Key>> } ]
  \cup [ kind : StoryFailures, narrative : {Null}, visualPrompt : {Null},
         interactables : {<<>>} ]
RoleReplies == {"ok"} \cup StoryFailures

\* generateStoryScene and initializeStoryRole rethrow every failure.
Throws(kind) == kind # "ok"

\* The typewriter effect: it starts anew when the narrative has changed.
Typewriter(narrative) ==
  isTyping' = IF narrative # gameState.narrative THEN TRUE ELSE isTyping

\* initGame, from its awaits to the state update of its timeout, or its catch.
\* Nothing else can run meanwhile: every handler returns while isLoading.
InitGame(roleReply, reply, charReply, bgReply) ==
  /\ gameState.isLoading
  /\ ~initError
  /\ IF Throws(roleReply) \/ Throws(reply.kind)
       THEN /\ initError' = TRUE
            /\ UNCHANGED << gameState, isTyping >>
       ELSE /\ gameState' = [ gameState EXCEPT
                                !.userRole = "role",
                                !.characterImage = generateSimulationImage(charReply, 0),
                                !.narrative = reply.narrative,
                                !.visualPrompt = reply.visualPrompt,
                                !.interactables = reply.interactables,
                                !.history = << reply.narrative >>,
                                !.bgImage = generateSimulationImage(bgReply, 0),
                                !.isLoading = FALSE,
                                !.isImageLoading = FALSE ]
            /\ Typewriter(reply.narrative)
            /\ UNCHANGED initError
  /\ event' = Event("initGame", Outcome(IF Throws(roleReply) THEN roleReply ELSE reply.kind))
  /\ UNCHANGED << runVars, savedRecords, localStorage, interactingId, showCustomInput,
                  sceneLoads, interactTimers, loadCalls >>

\* The retry button of the error screen: initGame starts again.
RetryInit ==
  /\ initError
  /\ initError' = FALSE
  /\ gameState' = [ gameState EXCEPT !.isLoading = TRUE ]
  /\ event' = Event("initGame", "retry")
  /\ UNCHANGED << runVars, savedRecords, localStorage, interactingId, showCustomInput,
                  isTyping, sceneLoads, interactTimers, loadCalls >>

\* The typewriter reaches the end of the narrative, or skipTyping.
TypingDone ==
  /\ isTyping
  /\ gameState.narrative # ""
  /\ isTyping' = FALSE
  /\ event' = Event("typingDone", "")
  /\ UNCHANGED << runVars, savedRecords, localStorage, gameState, interactingId,
                  showCustomInput, initError, sceneLoads, interactTimers, loadCalls >>

\* The button that opens the custom action form, and the form's close button.
ToggleCustomInput ==
  /\ IF showCustomInput THEN TRUE ELSE ~gameState.isLoading
  /\ showCustomInput' = ~showCustomInput
  /\ event' = Event("setShowCustomInput", "")
  /\ UNCHANGED << runVars, savedRecords, localStorage, gameState, interactingId, isTyping,
                  initError, sceneLoads, interactTimers, loadCalls >>

\* loadScene up to its await: the request for the next scene goes out.
loadScene(g, history, action) ==
  /\ gameState' = [ g EXCEPT !.isImageLoading = TRUE ]
  /\ interactingId' = Null
  /\ showCustomInput' = FALSE
  /\ loadCalls' = loadCalls + 1
  /\ sceneLoads' = sceneLoads \cup
       { [ id |-> loadCalls + 1, phase |-> "scene", history |-> history,
           action |-> action ] }

\* handleInteract: a click on a hotspot, which is rendered only while nothing
\* loads and the typewriter rests.  The load starts from a timeout.
handleInteract(item) ==
  /\ ~gameState.isLoading /\ ~isTyping /\ ~gameState.isImageLoading
  /\ item \in Range(gameState.interactables)
  /\ ~(gameState.isLoading \/ interactingId # Null)
  /\ loadCalls + Len(interactTimers) < MaxLoads
  /\ interactingId' = item.id
  /\ gameState' = IF item.type = "PICKUP"
                    THEN [ gameState EXCEPT !.inventory = Append(@, item.label) ]
                    ELSE gameState
  /\ interactTimers' = Append(interactTimers,
       [ history |-> gameState.history,
         action |-> IF item.type = "PICKUP" THEN << "pickup", item.label, item.description >>
                    ELSE << item.description >> ])
  /\ event' = Event("handleInteract", item.id)
  /\ UNCHANGED << runVars, savedRecords, localStorage, showCustomInput, isTyping, initError,
                  sceneLoads, loadCalls >>

\* The timeout of handleInteract fires and calls loadScene.
InteractTimer(i) ==
  /\ i \in DOMAIN interactTimers
  /\ loadScene(gameState, interactTimers[i].history, interactTimers[i].action)
  /\ interactTimers' = SubSeq(interactTimers, 1, i - 1) \o
                         SubSeq(interactTimers, i + 1, Len(interactTimers))
  /\ event' = Event("loadScene", "interact")
  /\ UNCHANGED << runVars, savedRecords, localStorage, isTyping, initError >>

\* handleContinue: the arrow, rendered while nothing loads or animates.
handleContinue ==
  /\ ~isTyping /\ ~gameState.isImageLoading /\ interactingId = Null
  /\ ~(gameState.isLoading \/ gameState.isImageLoading \/ interactingId # Null)
  /\ loadCalls + Len(interactTimers) < MaxLoads
  /\ loadScene(gameState, gameState.history, << "continue" >>)
  /\ event' = Event("loadScene", "continue")
  /\ UNCHANGED << runVars, savedRecords, localStorage, isTyping, initError,
                  interactTimers >>

\* handleCustomSubmit: the form, which exists while showCustomInput.
handleCustomSubmit(customAction) ==
  /\ showCustomInput
  /\ ~(Trim(customAction) = <<>> \/ gameState.isLoading)
  /\ loadCalls + Len(interactTimers) < MaxLoads
  /\ loadScene(gameState, gameState.history, << "custom", customAction >>)
  /\ event' = Event("loadScene", "custom")
  /\ UNCHANGED << runVars, savedRecords, localStorage, isTyping, initError,
                  interactTimers >>

\* loadScene after the scene's await: the scene is applied and its image
\* requested, or the catch clears isImageLoading.
StorySceneResponse(load, reply) ==
  /\ load \in sceneLoads
  /\ load.phase = "scene"
  /\ IF Throws(reply.kind)
       THEN /\ gameState' = [ gameState EXCEPT !.isImageLoading = FALSE ]
            /\ sceneLoads' = sceneLoads \ {load}
            /\ UNCHANGED isTyping
       ELSE /\ gameState' = [ gameState EXCEPT
                                !.narrative = reply.narrative,
                                !.visualPrompt = reply.visualPrompt,
                                !.interactables = reply.interactables,
                                !.history = Append(@, reply.narrative),
                                !.isImageLoading = TRUE ]
            /\ sceneLoads' = (sceneLoads \ {load}) \cup { [ load EXCEPT !.phase = "image" ] }
            /\ Typewriter(reply.narrative)
  /\ event' = Event("storyScene", Outcome(reply.kind))
  /\ UNCHANGED << runVars, savedRecords, localStorage, interactingId, showCustomInput,
                  initError, interactTimers, loadCalls >>

\* The image callback of the revision embedded in SimulationView.tsx
\* (lines 1004-1029), which stores whatever the request gave.
StoryImageResponse_NoFallback(load, reply) ==
  /\ load \in sceneLoads
  /\ load.phase = "image"
  /\ gameState' = [ gameState EXCEPT !.bgImage = generateSimulationImage(reply, load.id),
                                     !.isImageLoading = FALSE ]
  /\ sceneLoads' = sceneLoads \ {load}
  /\ event' = Event("storyImage", Outcome(reply))
  /\ UNCHANGED << runVars, savedRecords, localStorage, interactingId, showCustomInput,
                  isTyping, initError, interactTimers, loadCalls >>

\* The then-callback of loadScene's image request: img || prev.bgImage.
StoryImageResponse(load, reply) ==
  /\ load \in sceneLoads
  /\ load.phase = "image"
  /\ LET img == generateSimulationImage(reply, load.id)
     IN  gameState' = [ gameState EXCEPT
                          !.bgImage = IF img # NullImage THEN img ELSE @,
                          !.isImageLoading = FALSE ]
  /\ sceneLoads' = sceneLoads \ {load}
  /\ event' = Event("storyImage", Outcome(reply))
  /\ UNCHANGED << runVars, savedRecords, localStorage, interactingId, showCustomInput,
                  isTyping, initError, interactTimers, loadCalls >>

\* The story view after mount: initGame awaits its requests.
StoryInit ==
  /\ NoRun
  /\ savedRecords = <<>>
  /\ localStorage = JSONstringify(savedRecords)
  /\ StoryMounted
  /\ event = Event("mount", "")

StoryNext ==
  \/ \E roleReply \in RoleReplies, reply \in StoryReplies, charReply \in ImageReplies,
        bgReply \in ImageReplies : InitGame(roleReply, reply, charReply, bgReply)
  \/ RetryInit
  \/ TypingDone
  \/ ToggleCustomInput
  \/ \E item \in {Lamp, Key} : handleInteract(item)
  \/ \E i \in 1..MaxLoads : InteractTimer(i)
  \/ handleContinue
  \/ \E customAction \in InputTexts : handleCustomSubmit(customAction)
  \/ \E load \in sceneLoads, reply \in StoryReplies : StorySceneResponse(load, reply)
  \/ \E load \in sceneLoads, reply \in ImageReplies : StoryImageResponse(load, reply)

StorySpec == StoryInit /\ [][StoryNext]_vars

\* ----------------------------------------------------------------- claims

\* Steps of handleAction, told by where it is suspended before and after.
TurnFinishes == pc \in {"turn", "scene"} /\ pc' = "idle"
TurnAnswered == pc = "turn" /\ pc' # "turn"
TurnStarts == pc = "idle" /\ pc' = "turn"
ImageAnswered == imageReqs' # imageReqs /\ imageReqs' \subseteq imageReqs

IsPrefix(s, u) == Len(s) <= Len(u) /\ SubSeq(u, 1, Len(s)) = s

C2_SavedExactlyOnce ==
  /\ Len(savedRecords) <= 1
  /\ (simState.isEnded /\ simState.report # Null) => Len(savedRecords) = 1

C2_Witness ==
  /\ simState.isEnded
  /\ simState.report # Null
  /\ Len(savedRecords) = 1
  /\ event.op = "imageResponse"
  /\ showReportModal

\* C3: handleAction goes past its guard, and so changes state or calls a
\* generator, only with a text that is not blank and while none of isLoading,
\* isEnded and waitingForVisualChoice holds; every other call returns at once.
C3_RejectedCallIsNoOp ==
  [][ (TurnStarts \/ turnCalls' # turnCalls) =>
        /\ Trim(act'.actionText) # <<>>
        /\ ~simState.isLoading
        /\ ~simState.isEnded
        /\ ~simState.waitingForVisualChoice ]_vars

C3_Witness ==
  /\ simState.isEnded
  /\ ~simState.isLoading
  /\ ~simState.waitingForVisualChoice
  /\ pc = "idle"
  /\ turnCalls <= MaxTurns
  /\ ENABLED HandleActionRejected(<<Space, "go">>)

\* C4: once SCHEMATIC is the chosen style it stays the style, and no step of
\* the run issues an image request from then on.
C4_SchematicNeverImages ==
  [][ /\ (event'.op = "handleVisualChoice" /\ event'.info = "SCHEMATIC" /\ event' # event)
           => visualStyle' = "SCHEMATIC"
      /\ visualStyle = "SCHEMATIC" =>
           /\ visualStyle' = "SCHEMATIC"
           /\ imageCalls' = imageCalls
           /\ imageReqs' = imageReqs ]_vars

C4_Witness ==
  /\ visualStyle = "SCHEMATIC"
  /\ event.op = "sceneResponse"
  /\ pc = "idle"
  /\ turn.shouldUpdateVisuals
  /\ turn.isEnded
  /\ imageCalls = 0

\* C5: a successful turn whose result asks for no visual update and does not
\* end the run issues neither an image request nor a scene request.
C5_NoVisualCallWhenNotAsked ==
  [][ ( /\ TurnAnswered
        /\ event'.op = "turnResponse"
        /\ event'.info = "ok"
        /\ ~turn'.shouldUpdateVisuals
        /\ ~turn'.isEnded )
      => /\ imageCalls' = imageCalls
         /\ sceneCalls' = sceneCalls
         /\ imageReqs' = imageReqs
         /\ pc' = "idle" ]_vars

C5_Witness ==
  /\ event = Event("turnResponse", "ok")
  /\ pc = "idle"
  /\ ~turn.shouldUpdateVisuals
  /\ ~turn.isEnded
  /\ isScientificMode(type)
  /\ visualStyle = "ARTISTIC"

\* C6: when the scene request of a turn fails and a scene configuration
\* existed before, the scene configuration after the turn is the one from before.
C6_FailedSceneKeepsPrevious ==
  [][ ( /\ pc = "scene"
        /\ pc' = "idle"
        /\ event'.info = "failed"
        /\ simState.sceneConfig # Null )
      => simState'.sceneConfig = simState.sceneConfig ]_vars

C6_Witness ==
  /\ event = Event("sceneResponse", "failed")
  /\ pc = "idle"
  /\ simState.sceneConfig \in Scenes

\* C7: the image of a request older than the request whose image is shown is
\* discarded when it arrives: the image shown stays the newer one.
C7_StaleImageDiscarded ==
  [][ \A req \in imageReqs \ imageReqs' :
        ( /\ ImageAnswered
          /\ event'.info = "ok"
          /\ simState.imageBase64 # NullImage
          /\ simState.imageBase64[1] > req.id )
        => simState'.imageBase64 = simState.imageBase64 ]_vars

\* C8: a failed image request clears isImageLoading and leaves the last image
\* at the value it had when the request was issued.
C8_FailedImageKeepsLast ==
  [][ \A req \in imageReqs \ imageReqs' :
        ( /\ ImageAnswered
          /\ event'.info = "failed"
          /\ visualStyle = "ARTISTIC" )
        => /\ ~simState'.isImageLoading
           /\ simState'.imageBase64 = req.imageBefore ]_vars

\* C9 (as claimed): a turn whose generator call failed clears isLoading and
\* leaves history, options and isEnded as they were before the call.
C9_FailedTurnAppliesNothing ==
  [][ (TurnAnswered /\ event'.info = "failed")
      => /\ ~simState'.isLoading
         /\ simState'.history = act.history
         /\ simState'.options = simState.options
         /\ simState'.isEnded = simState.isEnded ]_vars

\* C9 (amended): a turn whose generator call failed clears isLoading and
\* leaves isEnded as it was; the fallback turn is applied as a turn: history
\* gains the USER entry and a MODEL entry with the fallback description, and
\* options becomes the one option of the fallback.
C9_FailedTurnAppliesFallback ==
  [][ (TurnAnswered /\ event'.info = "failed")
      => /\ ~simState'.isLoading
         /\ simState'.isEnded = simState.isEnded
         /\ \E f \in {ConnectionFallback, ParseFallback} :
              /\ simState'.history =
                   act.history \o << [ role |-> "user", text |-> act.actionText ],
                                     [ role |-> "model", text |-> f.description ] >>
              /\ simState'.options = f.options ]_vars

C9_Witness ==
  /\ event = Event("turnResponse", "failed")
  /\ pc = "idle"
  /\ ~simState.isLoading
  /\ Len(simState.history) = 3
  /\ simState.history[3].text = ParseFallback.description
  /\ simState.options = ParseFallback.options

\* C10: after a turn whose generator call failed the fallback description is
\* shown with exactly one option, the run has not ended, and handleAction's
\* guard lets that option through.
C10_FailedTurnOffersRetry ==
  [][ (TurnAnswered /\ event'.info = "failed")
      => /\ pc' = "idle"
         /\ simState'.description \in FallbackDescriptions
         /\ Len(simState'.options) = 1
         /\ Trim(simState'.options[1]) # <<>>
         /\ ~simState'.isEnded
         /\ ~simState'.isLoading
         /\ ~simState'.waitingForVisualChoice ]_vars

C10_Witness ==
  /\ event = Event("turnResponse", "failed")
  /\ pc = "idle"
  /\ simState.description \in FallbackDescriptions
  /\ Len(simState.options) = 1
  /\ ENABLED HandleActionRejected(<<>>)

\* The kinds the specification calls scientific.
ScientificKinds == {"HISTORY", "PHYSICS", "CHEMISTRY"}

\* C11 (as claimed): in a run of scientific kind, once initialization is over
\* the run waits for the visual choice, and until the choice is made no image
\* request and no scene request has been issued.
C11_NoVisualCallBeforeChoice ==
  (type \in ScientificKinds /\ visualStyle = Null) =>
    /\ pc # "init" => simState.waitingForVisualChoice
    /\ imageCalls = 0
    /\ sceneCalls = 0

\* C11 (amended): in a run of scientific kind, once initialization is over the
\* run waits for the visual choice; until the choice is made no image request
\* has been issued, and the only scene request is the one initialization
\* issues itself, alongside its turn request, for the initial context with no
\* previous configuration.
C11_OnlyInitSceneCallBeforeChoice ==
  (type \in ScientificKinds /\ visualStyle = Null) =>
    /\ imageCalls = 0
    /\ imageReqs = {}
    /\ sceneCalls = 1
    /\ sceneReq = SceneRequest(initialContext, Null)
    /\ pc # "init" => simState.waitingForVisualChoice

C11_Witness ==
  /\ type \in ScientificKinds
  /\ visualStyle = Null
  /\ event = Event("initResponse", "ok")
  /\ simState.waitingForVisualChoice
  /\ simState.sceneConfig \in Scenes
  /\ sceneCalls = 1
  /\ imageCalls = 0

\* The step in which the user chooses SCHEMATIC.
ChoosesSchematic ==
  simState.waitingForVisualChoice /\ visualStyle = Null /\ visualStyle' = "SCHEMATIC"

\* C12 (as claimed): when SCHEMATIC is chosen, exactly one scene request has
\* been made, for the description shown and with no previous configuration; no
\* image request is issued and the run no longer waits for the choice.
C12_ChoiceCallsSceneForDescription ==
  [][ ChoosesSchematic
      => /\ sceneCalls' = 1
         /\ sceneReq' = SceneRequest(simState'.description, Null)
         /\ imageCalls' = imageCalls
         /\ ~simState'.waitingForVisualChoice ]_vars

\* C12 (amended): choosing SCHEMATIC issues no scene request and no image
\* request and ends the wait for the choice; the scene configuration stays the
\* result of the one scene request so far, the one of initialization, made for
\* the initial context with no previous configuration.
C12_ChoiceUsesInitScene ==
  [][ ChoosesSchematic
      => /\ sceneCalls' = sceneCalls
         /\ sceneCalls' = 1
         /\ sceneReq' = SceneRequest(initialContext, Null)
         /\ imageCalls' = imageCalls
         /\ imageReqs' = imageReqs
         /\ ~simState'.waitingForVisualChoice
         /\ simState'.sceneConfig = simState.sceneConfig
         /\ simState'.sceneConfig # Null ]_vars

C12_Witness ==
  /\ event = Event("handleVisualChoice", "SCHEMATIC")
  /\ visualStyle = "SCHEMATIC"
  /\ ~simState.waitingForVisualChoice
  /\ ~simState.isImageLoading
  /\ sceneCalls = 1
  /\ imageCalls = 0
  /\ simState.sceneConfig \in Scenes

\* C13: in a run of a kind that is not scientific the run never waits for a
\* visual choice, and the step that ends initialization sets the style to
\* ARTISTIC and issues exactly one image request, for the initial description.
C13_NonScientificIsArtistic ==
  /\ [](type \notin ScientificKinds => ~simState.waitingForVisualChoice)
  /\ [][ (type \notin ScientificKinds /\ pc = "init" /\ pc' = "idle")
          => /\ visualStyle' = "ARTISTIC"
             /\ imageCalls = 0
             /\ imageCalls' = 1
             /\ imageReqs' = { [ id |-> 1, description |-> simState'.description,
                                 isEnded |-> simState'.isEnded,
                                 imageBefore |-> NullImage,
                                 call |-> ImageModelCall(simState'.description,
                                                         "ARTISTIC") ] }
             /\ simState'.history = << [ role |-> "model",
                                         text |-> simState'.description ] >> ]_vars

C13_Witness ==
  /\ type = "LITERATURE"
  /\ event = Event("initResponse", "ok")
  /\ visualStyle = "ARTISTIC"
  /\ imageCalls = 1
  /\ \E r \in imageReqs : r.description \in Descriptions
  /\ simState.isImageLoading
  /\ ~simState.waitingForVisualChoice

\* The step in which a SCHEMATIC run receives a parsed turn.
SchematicTurnAnswered ==
  TurnAnswered /\ event'.info = "ok" /\ act.visualStyle = "SCHEMATIC"

\* C14 (as claimed): in SCHEMATIC mode a successful turn that asks for a visual
\* update or ends the run issues exactly one scene request, seeded with the
\* scene configuration of the turn before.
C14_SceneCallOnUpdateOrEnd ==
  [][ (SchematicTurnAnswered /\ (turn'.shouldUpdateVisuals \/ turn'.isEnded))
      => /\ sceneCalls' = sceneCalls + 1
         /\ sceneReq'.previousState = simState.sceneConfig ]_vars

\* C14 (amended): in SCHEMATIC mode a successful turn that asks for a visual
\* update issues exactly one scene request, for the new description and seeded
\* with the scene configuration of the turn before; a turn that asks for none
\* issues no scene request, also when it ends the run.
C14_SceneCallOnUpdateOnly ==
  [][ /\ SchematicTurnAnswered =>
           IF turn'.shouldUpdateVisuals
             THEN /\ sceneCalls' = sceneCalls + 1
                  /\ sceneReq' = SceneRequest(turn'.description, simState.sceneConfig)
                  /\ simState.sceneConfig # Null
                  /\ pc' = "scene"
             ELSE /\ sceneCalls' = sceneCalls
                  /\ sceneReq' = sceneReq
                  /\ pc' = "idle"
      /\ (visualStyle = "SCHEMATIC" /\ ~TurnAnswered) => sceneCalls' = sceneCalls ]_vars

C14_Witness ==
  /\ visualStyle = "SCHEMATIC"
  /\ event = Event("turnResponse", "ok")
  /\ pc = "scene"
  /\ turn.shouldUpdateVisuals
  /\ sceneCalls = 2
  /\ sceneReq.previousState = simState.sceneConfig
  /\ sceneReq.previousState \in Scenes

\* C15: in ARTISTIC mode a successful turn that asks for a visual update or
\* ends the run issues exactly one image request, for the new description, in
\* the step that applies the turn; no step of a turn before that one, so none
\* before the turn's result is in, issues an image request.
C15_ImageCallAfterTurnResult ==
  [][ /\ ( /\ TurnFinishes
           /\ act.visualStyle = "ARTISTIC"
           /\ turn'.description \in Descriptions
           /\ (turn'.shouldUpdateVisuals \/ turn'.isEnded) )
         => /\ imageCalls' = imageCalls + 1
            /\ imageReqs' \ imageReqs =
                 { [ id |-> imageCalls', description |-> turn'.description,
                     isEnded |-> turn'.isEnded, imageBefore |-> simState.imageBase64,
                     call |-> ImageModelCall(turn'.description, "ARTISTIC") ] }
            /\ simState'.description = turn'.description
      /\ pc' \in {"turn", "scene"} => imageCalls' = imageCalls ]_vars

C15_Witness ==
  /\ visualStyle = "ARTISTIC"
  /\ event = Event("turnResponse", "ok")
  /\ pc = "idle"
  /\ turn.isEnded
  /\ ~turn.shouldUpdateVisuals
  /\ imageCalls = 2
  /\ \E r \in imageReqs : r.id = 2 /\ r.description = turn.description

\* C16: no step of a run takes isEnded from true back to false.
C16_EndedIsMonotonic ==
  [][ simState.isEnded => simState'.isEnded ]_vars

C16_Witness ==
  /\ simState.isEnded
  /\ turn.isEnded
  /\ event.op = "imageResponse"
  /\ Len(simState.history) = 3
  /\ ~Accepts(<<Space, "go">>, simState)

\* C17: the report becomes non-null only in a run that has not ended before,
\* and a report that is non-null is never changed or cleared by a later step.
C17_ReportSetOnceAndKept ==
  [][ /\ (simState.report = Null /\ simState'.report # Null) => ~simState.isEnded
      /\ simState.report # Null => simState'.report = simState.report ]_vars

\* C18: a style that is set keeps its value; the style changes only from unset,
\* by a choice made while the run waits for it or by the initialization of a
\* run that is not scientific; a choice is made only while the run waits for it.
C18_StyleIsSticky ==
  [][ /\ visualStyle # Null => visualStyle' = visualStyle
      /\ visualStyle' # visualStyle =>
           \/ simState.waitingForVisualChoice /\ event'.op = "handleVisualChoice"
           \/ pc = "init" /\ type \notin ScientificKinds /\ visualStyle' = "ARTISTIC"
      /\ (event'.op = "handleVisualChoice" /\ event' # event) =>
           /\ simState.waitingForVisualChoice
           /\ visualStyle = Null
           /\ visualStyle' = event'.info ]_vars

C18_Witness ==
  /\ type \in ScientificKinds
  /\ visualStyle = "ARTISTIC"
  /\ event.op = "turnResponse"
  /\ pc = "idle"
  /\ ~simState.waitingForVisualChoice
  /\ Len(simState.history) = 3

\* C19: when every request settles, isLoading, set by the mount and by every
\* accepted handleAction, becomes false again, whatever the replies are; and
\* the run is loading exactly while startSimulation or a handleAction is
\* suspended at a request.
C19_LoadingEnds ==
  /\ []<>(~simState.isLoading)
  /\ [](simState.isLoading <=> pc # "idle")

C19_Witness ==
  /\ event = Event("sceneResponse", "failed")
  /\ turn.description \in Descriptions
  /\ ~simState.isLoading
  /\ pc = "idle"
  /\ turnCalls = 2

\* The reply with an explicit upstream error in place of a timeout.
AsError(reply) == IF reply.kind = "timeout" THEN [ reply EXCEPT !.kind = "error" ] ELSE reply

\* C20: for the turn, scene and image requests alike, a step that resumes the
\* run with a timeout leads to the very state the step leads to that resumes
\* it with an upstream error, and the other way round.
C20_TimeoutIsOrdinaryFailure ==
  [][ /\ (pc = "init" /\ pc' = "idle") =>
           \A reply \in TurnReplies, sceneReply \in SceneReplies :
             InitResponse(reply, sceneReply)
               <=> InitResponse(AsError(reply), AsError(sceneReply))
      /\ (pc = "turn" /\ pc' # "turn") =>
           \A reply \in TurnReplies :
             TurnResponse(reply) <=> TurnResponse(AsError(reply))
      /\ (pc = "scene" /\ pc' = "idle") =>
           \A sceneReply \in SceneReplies :
             SceneResponse(sceneReply) <=> SceneResponse(AsError(sceneReply))
      /\ \A req \in imageReqs \ imageReqs' :
           ImageResponse(req, "timeout") <=> ImageResponse(req, "error") ]_vars

C20_Witness ==
  /\ event = Event("turnResponse", "failed")
  /\ pc = "idle"
  /\ simState.description = ConnectionFallback.description
  /\ simState.options = ConnectionFallback.options
  /\ Len(simState.history) = 3
  /\ imageReqs # {}

\* C21: the report dialog opens only in a run that has ended and whose ending
\* turn has been applied with its scene configuration; in ARTISTIC mode the
\* image request of the ending turn has been answered by then; and the timer
\* that opens the dialog is set only under the same conditions.
C21_ReportAfterFinalVisual ==
  /\ [](( showReportModal \/ timers > 0 ) =>
          /\ simState.isEnded
          /\ pc = "idle"
          /\ visualStyle \in {"ARTISTIC", "SCHEMATIC"}
          /\ visualStyle = "ARTISTIC" => \A r \in imageReqs : ~r.isEnded)
  /\ [][ (showReportModal' /\ ~showReportModal) =>
            /\ timers > 0
            /\ simState' = simState
            /\ imageReqs' = imageReqs ]_vars

C21_Witness ==
  /\ showReportModal
  /\ event.op = "reportTimer"
  /\ visualStyle = "ARTISTIC"
  /\ turn.isEnded
  /\ imageReqs = {}
  /\ simState.imageBase64 = ImageFor(2)

\* C22: the record handed to the archive carries the kind of the run, the
\* report of the run and, as transcript, the whole history of the ended run,
\* which closes with the USER entry and the MODEL entry of the ending turn.
C22_RecordCarriesRun ==
  savedRecords # <<>> =>
    LET record == savedRecords[1]
        n == Len(record.transcript)
    IN  /\ simState.isEnded
        /\ record.type = type
        /\ record.report = simState.report
        /\ record.report # Null
        /\ record.transcript = simState.history
        /\ n >= 1
        /\ record.transcript[n] = [ role |-> "model", text |-> simState.description ]
        /\ n > 1 => /\ record.transcript[n - 1].role = "user"
                    /\ Trim(record.transcript[n - 1].text) # <<>>

C22_Witness ==
  /\ Len(savedRecords) = 1
  /\ Len(savedRecords[1].transcript) = 3
  /\ savedRecords[1].transcript[2] = [ role |-> "user", text |-> <<Space, "go">> ]
  /\ savedRecords[1].type = "CHEMISTRY"
  /\ event.op = "turnResponse"

\* C23: an ended run has no options; and a successful turn replaces the
\* options by the options of the turn.
C23_EndedHasNoOptions ==
  /\ [](simState.isEnded => simState.options = <<>>)
  /\ [][ (TurnFinishes /\ turn'.description \in Descriptions)
          => simState'.options = turn'.options ]_vars

\* C24: while a turn request is outstanding isLoading holds, and while an image
\* request or a scene request is outstanding isImageLoading holds.
C24_LoadingFlagsCoverRequests ==
  /\ pc \in {"init", "turn"} => simState.isLoading
  /\ ( \/ imageReqs # {}
       \/ pc = "scene"
       \/ pc = "init" /\ isScientificMode(type) ) => simState.isImageLoading

\* C25: no step takes the scene configuration from a configuration back to
\* null; a scientific run has one from the end of initialization on.
C25_SceneConfigStays ==
  /\ []((isScientificMode(type) /\ pc # "init") => simState.sceneConfig # Null)
  /\ [][ simState.sceneConfig # Null => simState'.sceneConfig # Null ]_vars

C25_Witness ==
  /\ isScientificMode(type)
  /\ visualStyle = "ARTISTIC"
  /\ event.op = "imageResponse"
  /\ simState.sceneConfig # Null
  /\ Len(simState.history) = 3
  /\ ~turn.shouldUpdateVisuals
  /\ sceneCalls = 1

\* The description the catch of startSimulation sets.
InitFailedDescription == "initialization failed, please retry"

\* C26: when the turn request of initialization fails, the run shows the
\* initialization-failed description, none of isLoading, isImageLoading and
\* waitingForVisualChoice holds, and there are no options.
C26_FailedInitIsStable ==
  [][ (pc = "init" /\ pc' = "idle" /\ event'.info = "failed")
      => /\ simState'.description = InitFailedDescription
         /\ ~simState'.isLoading
         /\ ~simState'.isImageLoading
         /\ ~simState'.waitingForVisualChoice
         /\ simState'.options = <<>> ]_vars

\* C27: the run waits for the visual choice only in a scientific run, after
\* initialization and with the style still unset; only the step that ends
\* initialization starts the wait, so a wait that is over does not come back.
C27_WaitOnlyBeforeChoice ==
  /\ [](simState.waitingForVisualChoice =>
          /\ type \in ScientificKinds
          /\ pc # "init"
          /\ visualStyle = Null)
  /\ [][ (~simState.waitingForVisualChoice /\ simState'.waitingForVisualChoice)
          => (pc = "init" /\ pc' = "idle") ]_vars

C27_Witness ==
  /\ type \in ScientificKinds
  /\ ~simState.waitingForVisualChoice
  /\ visualStyle = "SCHEMATIC"
  /\ event.op = "turnResponse"
  /\ pc = "idle"
  /\ Len(simState.history) = 3
  /\ ~turn.isEnded

\* C28 (as claimed): generateSimulationImage asked for style SCHEMATIC sends
\* no request to the image model.
C28_AdapterSkipsSchematic ==
  ImageModelCall(simState.description, "SCHEMATIC") = NoImageCall

\* C28 (amended): triggerImageGeneration called with style SCHEMATIC changes no
\* state and issues no request, in whatever state it is called; the test is
\* its own: generateSimulationImage sends a request for SCHEMATIC as it does
\* for ARTISTIC, and every request in flight was sent for ARTISTIC.
C28_TriggerSkipsSchematic ==
  /\ \A isEnded \in BOOLEAN :
       triggerImageGeneration(simState, simState.description, "SCHEMATIC", isEnded)
         = [ state |-> simState, reqs |-> imageReqs, calls |-> imageCalls ]
  /\ ImageModelCall(simState.description, "SCHEMATIC") # NoImageCall
  /\ ImageModelCall(simState.description, "SCHEMATIC").prompt[1] = StylePrompt("SCHEMATIC")
  /\ \A r \in imageReqs : r.call = ImageModelCall(r.description, "ARTISTIC")

C28_Witness ==
  /\ visualStyle = "SCHEMATIC"
  /\ simState.isEnded
  /\ showReportModal
  /\ Len(simState.history) = 3
  /\ imageCalls = 0
  /\ triggerImageGeneration(simState, simState.description, visualStyle, TRUE).calls = 0

\* C29: for every reply of the upstream generateSimulationTurn yields a turn
\* with a description and an isEnded flag; for unparsable text, an upstream
\* error, an empty text and a timeout it is one of the two fixed fallback
\* turns, which does not end the run, asks for no visual update and has one
\* option; and the turn a failed request leaves in the run is such a fallback.
C29_AdapterAlwaysYieldsTurn ==
  /\ \A reply \in TurnReplies :
       LET t == generateSimulationTurn(reply)
       IN  /\ t.description # Null
           /\ t.isEnded \in BOOLEAN
           /\ reply.kind \in TurnFailures =>
                /\ t = IF reply.kind = "unparsable" THEN ParseFallback
                       ELSE ConnectionFallback
                /\ ~t.isEnded
                /\ ~t.shouldUpdateVisuals
                /\ Len(t.options) = 1
  /\ (event.op \in {"initResponse", "turnResponse"} /\ event.info = "failed") =>
       /\ simState.description \in FallbackDescriptions
       /\ ~simState.isEnded
  /\ (event = Event("turnResponse", "failed")) =>
       turn \in {ConnectionFallback, ParseFallback}

C29_Witness ==
  /\ event = Event("initResponse", "failed")
  /\ simState.description = ParseFallback.description
  /\ simState.options = ParseFallback.options
  /\ ~simState.isEnded
  /\ ~simState.isLoading

\* C30: a failed scene request made with no previous configuration yields the
\* placeholder configuration, the same for every kind of failure; its objects
\* include a ground PLANE and the labelled generation-failed marker; and the
\* scene configuration a run holds after initialization's request is a
\* configuration of the upstream or the placeholder, never none.
C30_PlaceholderOnFirstFailure ==
  /\ \A reply \in SceneReplies :
       reply.kind \in SceneFailures =>
         generateSceneConfiguration(reply, Null) = PlaceholderScene
  /\ \E o \in Range(PlaceholderObjects) : o.type = "PLANE"
  /\ \E o \in Range(PlaceholderObjects) :
       o.id = "error_cube" /\ o.label = "configuration generation failed"
  /\ (sceneReq = SceneRequest(initialContext, Null) /\ pc # "init") =>
       simState.sceneConfig \in Scenes \cup {PlaceholderScene}
  /\ simState.sceneConfig = PlaceholderScene => isScientificMode(type)

C30_Witness ==
  /\ simState.sceneConfig = PlaceholderScene
  /\ event = Event("initResponse", "ok")
  /\ simState.waitingForVisualChoice
  /\ sceneReq.previousState = Null

\* The positions of records, in order, whose id is not the given one.
RECURSIVE Without(_, _)
Without(records, id) ==
  IF records = <<>> THEN <<>>
  ELSE IF records[Len(records)].id = id
    THEN Without(SubSeq(records, 1, Len(records) - 1), id)
    ELSE Append(Without(SubSeq(records, 1, Len(records) - 1), id), records[Len(records)])

\* C31: a save adds its record and leaves every stored record as it was and
\* where it was relative to the others; a delete removes every record with the
\* id and no other, keeping the order of the rest; and after each of them the
\* stored text parses to the list in memory.
C31_ArchiveSaveAndDelete ==
  /\ [](JSONparse(localStorage) = savedRecords)
  /\ [][ /\ event'.op = "handleSaveRecord" =>
              /\ Len(savedRecords') = Len(savedRecords) + 1
              /\ Head(savedRecords').id = event'.info
              /\ Tail(savedRecords') = savedRecords
         /\ event'.op = "handleDeleteRecord" =>
              /\ savedRecords' = Without(savedRecords, event'.info)
              /\ \A i \in DOMAIN savedRecords' : savedRecords'[i].id # event'.info
              /\ Len(savedRecords') < Len(savedRecords) ]_vars

C31_Witness ==
  /\ event = Event("handleDeleteRecord", "t2")
  /\ Len(savedRecords) = 2
  /\ savedRecords[1].id = "t1"
  /\ savedRecords[2].id = "t3"
  /\ JSONparse(localStorage) = savedRecords

\* C33: while the turn request of an accepted handleAction is outstanding
\* (the turn call, and the scene call that may follow it), isLoading is true
\* and history already ends with the USER entry of that action.
C33_UserEntryBeforeResponse ==
  pc \in {"turn", "scene"} =>
    /\ simState.isLoading
    /\ simState.history = newHistory(act)

\* C34: in a run whose style is ARTISTIC, whatever its kind, no step of a turn
\* issues a generateSceneConfiguration call.
C34_ArtisticTurnsIssueNoSceneCall ==
  [][ (visualStyle = "ARTISTIC" /\ pc \in {"turn", "scene"}) =>
        sceneCalls' = sceneCalls ]_vars

\* C35: the step that applies the reply of an image request, good or failed,
\* changes of the run state only imageBase64 and isImageLoading, which becomes
\* false; it leaves history, options, description, isEnded, report and the
\* scene configuration as they are, issues no request, leaves the turn in
\* flight alone, and does not open the report dialog itself but at most sets
\* the timer that will; so too while a turn request is outstanding and after
\* a newer turn has been applied.
C35_ImageReplyFrame ==
  [][ ImageAnswered =>
        /\ simState' = [ simState EXCEPT !.imageBase64 = simState'.imageBase64,
                                         !.isImageLoading = FALSE ]
        /\ \A req \in imageReqs \ imageReqs' :
              timers' = IF req.isEnded THEN timers + 1 ELSE timers
        /\ UNCHANGED << storyVars, type, visualStyle, showReportModal, reportSaved, savedRecords,
                        localStorage, pc, act, turn, sceneReq, turnCalls, sceneCalls,
                        imageCalls >> ]_vars

C35_Witness ==
  /\ event.op = "imageResponse"
  /\ pc = "turn"
  /\ simState.isLoading
  /\ ~simState.isImageLoading
  /\ Len(simState.history) = 1

\* C36: a turn request is issued by handleAction only when neither
\* startSimulation nor an earlier handleAction is suspended; a handleAction
\* called while one is suspended changes nothing; and the history a turn result
\* is applied to is the history its handleAction started from, so a result
\* extends the current history by its two entries and drops none.
C36_OneTurnRequestAtATime ==
  /\ [][ turnCalls' # turnCalls =>
           /\ pc = "idle"
           /\ pc' = "turn"
           /\ turnCalls' = turnCalls + 1 ]_vars
  /\ [](pc # "idle" => \A a \in ActionTexts : ~Accepts(a, simState))
  /\ [](pc \in {"turn", "scene"} => act.history = simState.history)
  /\ [][ TurnFinishes => IsPrefix(simState.history, simState'.history) ]_vars

C36_Witness ==
  /\ pc = "turn"
  /\ turnCalls = 2
  /\ event = Event("handleAction", "accepted")
  /\ ~Accepts(<<"go">>, simState)

\* The roles of a history that starts with a MODEL entry and alternates.
Alternates(history) ==
  \A i \in DOMAIN history :
    history[i].role = IF i % 2 = 1 THEN "model" ELSE "user"

\* C37: once startSimulation has applied its turn, history is not empty, starts
\* with a MODEL entry and alternates MODEL, USER, MODEL, ...; and whenever no
\* turn request is outstanding its last entry is a MODEL entry whose text is
\* the current description.
C37_HistoryShape ==
  pc # "init" =>
    /\ simState.history # <<>>
    /\ Alternates(simState.history)
    /\ pc = "idle" =>
         /\ simState.history[Len(simState.history)].role = "model"
         /\ simState.history[Len(simState.history)].text = simState.description

C37_Witness ==
  /\ pc = "idle"
  /\ Len(simState.history) = 3
  /\ simState.history[2].role = "user"
  /\ simState.history[3].text = simState.description
  /\ simState.description \in Descriptions

\* C38: in a run that is carried through, an ended run with a report gets its
\* report dialog opened, whatever the style and also when the run was already
\* ended by the initialization turn.
C38_ReportEventuallyShown ==
  (simState.isEnded /\ simState.report # Null) ~> showReportModal

\* C32: in story mode, when the image request of a newly loaded scene gives
\* null, bgImage keeps the value it had and isImageLoading becomes false; the
\* scene that was applied stays as it is.
C32_FailedStoryImageKeepsBackground ==
  [][ (event'.op = "storyImage" /\ event'.info = "failed"
         /\ sceneLoads' # sceneLoads) =>
        gameState' = [ gameState EXCEPT !.isImageLoading = FALSE ] ]_vars

C32_Witness ==
  /\ event = Event("storyImage", "failed")
  /\ gameState.bgImage = ImageFor(1)
  /\ ~gameState.isImageLoading
  /\ Len(gameState.history) = 3
  /\ sceneLoads = {}

\* C39: in story mode a loadScene call is made only while no earlier call is
\* suspended at its scene request or its image request, so at most one is in
\* flight.
C39_OneSceneLoadAtATime ==
  /\ [](Cardinality(sceneLoads) <= 1)
  /\ [][ loadCalls' # loadCalls => sceneLoads = {} ]_vars

====
